---- MODULE Spec2Model ----
(***************************************************************************)
(* Model of src/routes/+page.svelte: a page that drives the browser's      *)
(* SpeechRecognition object with one button and folds its result events    *)
(* into a finalized transcript and an interim transcript.                  *)
(*                                                                         *)
(* Transcripts are sequences of characters ("" is << >>); `+=` is \o.      *)
(* The SpeechRecognition object is the host's: its life cycle is modelled  *)
(* by `engine`, `stopRequested` and `errorFired`, which change only where  *)
(* the page calls start()/stop() or the object delivers an event.          *)
(***************************************************************************)
EXTENDS Naturals, Sequences, FiniteSets, TLC

\* ---------------------------------------------------------------- bounds
\* Largest event.results.length the capability delivers.
MaxResults == 2
\* Result events delivered per session (between two start requests).
MaxBatches == 2

\* Recognized chunk texts (event.results[i][0].transcript).
Texts == {<<"a">>, <<"b">>}
\* event.error codes of SpeechRecognitionErrorEvent.
ErrorCodes == {"no-speech", "not-allowed"}

\* One SpeechRecognitionResult: its first alternative's transcript and isFinal.
Chunk == [transcript : Texts, isFinal : BOOLEAN]

\* A SpeechRecognitionEvent as handleRecognitionResult reads it: resultIndex,
\* results.length and results[i] for resultIndex <= i < length (0-based; the
\* entries below resultIndex are never read and are left out).
ResultEvents ==
    UNION { { [resultIndex |-> k, length |-> n, results |-> f] :
                f \in [k..(n-1) -> Chunk] } :
            <<k, n>> \in { p \in (0..MaxResults) \X (0..MaxResults) : p[1] <= p[2] } }

NoEvent == [resultIndex |-> 0, length |-> 0, results |-> [i \in {} |-> 0]]

VARIABLES
    recognition,        \* "null" or "object" (line 4, set in onMount)
    interimTranscript,  \* line 5
    finalTranscript,    \* line 6
    isRecording,        \* line 7
    isButtonDisabled,   \* line 8
    errorMessage,       \* line 9
    engine,             \* the capability: "inactive", "starting", "started"
    stopRequested,      \* stop() was called and `end` has not fired yet
    errorFired,         \* `error` has fired and `end` has not fired yet
    nBatches,           \* result events delivered since the last start request
    finalLog,           \* <<index, text>> of every final chunk delivered since
                        \* the last start request, in delivery order
    fresh,              \* (final, interim) of an aggregator constructed at the
                        \* last start request and fed the same result events
    errorSinceStart,    \* an error event arrived since the last start request
    last                \* the step just taken (what ran, with which event)

vars == <<recognition, interimTranscript, finalTranscript, isRecording,
          isButtonDisabled, errorMessage, engine, stopRequested, errorFired,
          nBatches, finalLog, fresh, errorSinceStart, last>>

\* ------------------------------------------------------------ the page
\* The step just taken: the handler that ran, its event or error code, and for
\* startRecognition whether the capability was live when start() was called
\* and whether the transcript and error were empty then; for `end`, `live`
\* tells whether stop() had been called in that session.
Step(kind, ev, code, live, cleared) ==
    [kind |-> kind, event |-> ev, error |-> code, live |-> live, cleared |-> cleared]

\* createSpeechRecognition: null when the browser has no implementation.
createSpeechRecognition == {"null", "object"}

Init ==
    /\ recognition \in createSpeechRecognition
    /\ interimTranscript = << >>
    /\ finalTranscript = << >>
    /\ isRecording = FALSE
    /\ isButtonDisabled = FALSE
    /\ errorMessage = ""
    /\ engine = "inactive"
    /\ stopRequested = FALSE
    /\ errorFired = FALSE
    /\ nBatches = 0
    /\ finalLog = << >>
    /\ fresh = [final |-> << >>, interim |-> << >>]
    /\ errorSinceStart = FALSE
    /\ last = Step("mount", NoEvent, "", FALSE, FALSE)

\* The session is live at the capability: start() was accepted and `end` has
\* not fired since.
Live == engine # "inactive"

\* for (let i = event.resultIndex; i < event.results.length; i++) { ... }
RECURSIVE ResultLoop(_, _, _, _)
ResultLoop(i, event, final, interim) ==
    IF i >= event.length
    THEN [final |-> final, interim |-> interim]
    ELSE LET tr == event.results[i].transcript
         IN  IF event.results[i].isFinal
             THEN ResultLoop(i + 1, event, final \o tr, interim)
             ELSE ResultLoop(i + 1, event, final, interim \o tr)

\* Mutant: `finalTranscript = tr` instead of `+=`, each event starts over.
handleRecognitionResult_Assign(final, event) ==
    ResultLoop(event.resultIndex, event, << >>, << >>)

\* Mutant: `interim` is not reset, the event's text is added to what shows.
handleRecognitionResult_AppendInterim(final, event) ==
    ResultLoop(event.resultIndex, event, final, interimTranscript)

\* Mutant: the loop stops one short of results.length.
handleRecognitionResult_OffByOne(final, event) ==
    ResultLoop(event.resultIndex,
               [event EXCEPT !.length = IF @ > 0 THEN @ - 1 ELSE 0],
               final, << >>)

\* Mutant: result events are dropped once the button is disabled by a stop
\* request.
handleRecognitionResult_DropWhenStopping(final, event) ==
    IF isButtonDisabled
    THEN [final |-> final, interim |-> interimTranscript]
    ELSE ResultLoop(event.resultIndex, event, final, << >>)

\* Mutant: final text is put in front of finalTranscript, not after it.
handleRecognitionResult_Prepend(final, event) ==
    LET r == ResultLoop(event.resultIndex, event, << >>, << >>)
    IN  [final |-> r.final \o final, interim |-> r.interim]

\* handleRecognitionResult: the pair (finalTranscript, interimTranscript) after
\* the handler, from the finalTranscript before it and the event.
handleRecognitionResult(final, event) ==
    ResultLoop(event.resultIndex, event, final, << >>)

\* The final chunks of an event as the capability delivered them.
RECURSIVE FinalsOf(_, _)
FinalsOf(event, i) ==
    IF i >= event.length THEN << >>
    ELSE (IF event.results[i].isFinal
          THEN << <<i, event.results[i].transcript>> >> ELSE << >>)
         \o FinalsOf(event, i + 1)

\* recognition.onresult
OnResult ==
    /\ recognition = "object"
    /\ engine = "started"
    /\ nBatches < MaxBatches
    /\ \E event \in ResultEvents :
          LET r == handleRecognitionResult(finalTranscript, event)
          IN  /\ finalTranscript' = r.final
              /\ interimTranscript' = r.interim
              /\ finalLog' = finalLog \o FinalsOf(event, event.resultIndex)
              /\ fresh' = handleRecognitionResult(fresh.final, event)
              /\ last' = Step("result", event, "", FALSE, FALSE)
    /\ nBatches' = nBatches + 1
    /\ UNCHANGED <<recognition, isRecording, isButtonDisabled, errorMessage,
                   engine, stopRequested, errorFired, errorSinceStart>>

NoSpeechMessage == "no speech was detected; please try again"

\* Mutant: one message for every error code.
ErrorText_NoSpeechOnly(code) ==
    NoSpeechMessage

\* The message handleRecognitionError shows for an error code.
ErrorText(code) ==
    IF code = "no-speech" THEN NoSpeechMessage ELSE "an error occurred: " \o code

\* recognition.onerror = handleRecognitionError
OnError ==
    /\ recognition = "object"
    /\ engine # "inactive"
    /\ ~errorFired
    /\ \E code \in ErrorCodes :
          /\ errorMessage' = ErrorText(code)
          /\ last' = Step("error", NoEvent, code, FALSE, FALSE)
    /\ isRecording' = FALSE
    /\ isButtonDisabled' = FALSE
    /\ errorFired' = TRUE
    /\ errorSinceStart' = TRUE
    /\ UNCHANGED <<recognition, interimTranscript, finalTranscript, engine,
                   stopRequested, nBatches, finalLog, fresh>>

\* recognition.onstart
OnStart ==
    /\ recognition = "object"
    /\ engine = "starting"
    /\ ~errorFired
    /\ engine' = "started"
    /\ isRecording' = TRUE
    /\ isButtonDisabled' = FALSE
    /\ last' = Step("start", NoEvent, "", FALSE, FALSE)
    /\ UNCHANGED <<recognition, interimTranscript, finalTranscript, errorMessage,
                   stopRequested, errorFired, nBatches, finalLog, fresh, errorSinceStart>>

\* The `end` event, which fires once per session (after an error, after stop(),
\* or on the capability's own initiative), with what its handler assigns to
\* isRecording, isButtonDisabled, errorMessage and interimTranscript.
EndEvent(recording, disabled, message, interim) ==
    /\ recognition = "object"
    /\ engine = "started" \/ errorFired
    /\ engine' = "inactive"
    /\ stopRequested' = FALSE
    /\ errorFired' = FALSE
    /\ isRecording' = recording
    /\ isButtonDisabled' = disabled
    /\ errorMessage' = message
    /\ interimTranscript' = interim
    /\ last' = Step("end", NoEvent, "", stopRequested, FALSE)
    /\ UNCHANGED <<recognition, finalTranscript, nBatches, finalLog, fresh,
                   errorSinceStart>>

\* Mutant: onend completes only a session the page asked to stop.
OnEnd_OnlyAfterStop ==
    EndEvent(IF isButtonDisabled THEN FALSE ELSE isRecording, FALSE,
             errorMessage, interimTranscript)

\* Mutant: onend also clears the error message.
OnEnd_ClearsError ==
    EndEvent(FALSE, FALSE, "", interimTranscript)

\* Mutant: onend also clears the interim transcript.
OnEnd_ClearsInterim ==
    EndEvent(FALSE, FALSE, errorMessage, << >>)

\* recognition.onend
OnEnd ==
    EndEvent(FALSE, FALSE, errorMessage, interimTranscript)

\* Mutant: startRecognition without `finalTranscript = ''`.
startRecognition_KeepsFinal ==
    /\ interimTranscript' = << >>
    /\ errorMessage' = ""
    /\ isButtonDisabled' = TRUE
    /\ engine' = IF recognition = "object" /\ engine = "inactive"
                 THEN "starting" ELSE engine
    /\ nBatches' = 0
    /\ finalLog' = << >>
    /\ fresh' = [final |-> << >>, interim |-> << >>]
    /\ errorSinceStart' = FALSE
    /\ last' = Step("startRecognition", NoEvent, "",
                    recognition = "object" /\ Live,
                    /\ interimTranscript' = << >>
                    /\ finalTranscript = << >>
                    /\ errorMessage' = "")
    /\ UNCHANGED <<recognition, isRecording, stopRequested, errorFired,
                   finalTranscript>>

\* Mutant: startRecognition without `errorMessage = ''`.
startRecognition_KeepsError ==
    /\ interimTranscript' = << >>
    /\ finalTranscript' = << >>
    /\ isButtonDisabled' = TRUE
    /\ engine' = IF recognition = "object" /\ engine = "inactive"
                 THEN "starting" ELSE engine
    /\ nBatches' = 0
    /\ finalLog' = << >>
    /\ fresh' = [final |-> << >>, interim |-> << >>]
    /\ errorSinceStart' = FALSE
    /\ last' = Step("startRecognition", NoEvent, "",
                    recognition = "object" /\ Live,
                    /\ interimTranscript' = << >>
                    /\ finalTranscript' = << >>
                    /\ errorMessage = "")
    /\ UNCHANGED <<recognition, isRecording, stopRequested, errorFired, errorMessage>>

\* startRecognition. recognition?.start() does nothing on null, and on a
\* session that is still live it throws InvalidStateError and is ignored by
\* the capability; the assignments before it stand in both cases.
startRecognition ==
    /\ interimTranscript' = << >>
    /\ finalTranscript' = << >>
    /\ errorMessage' = ""
    /\ isButtonDisabled' = TRUE
    /\ engine' = IF recognition = "object" /\ engine = "inactive"
                 THEN "starting" ELSE engine
    /\ nBatches' = 0
    /\ finalLog' = << >>
    /\ fresh' = [final |-> << >>, interim |-> << >>]
    /\ errorSinceStart' = FALSE
    /\ last' = Step("startRecognition", NoEvent, "",
                    recognition = "object" /\ Live,
                    /\ interimTranscript' = << >>
                    /\ finalTranscript' = << >>
                    /\ errorMessage' = "")
    /\ UNCHANGED <<recognition, isRecording, stopRequested, errorFired>>

\* Mutant: stopRecognition without `isButtonDisabled = true`.
stopRecognition_LeavesEnabled ==
    /\ stopRequested' = (stopRequested \/ (recognition = "object" /\ engine = "started"))
    /\ last' = Step("stopRecognition", NoEvent, "", FALSE, FALSE)
    /\ UNCHANGED <<recognition, interimTranscript, finalTranscript, isRecording,
                   isButtonDisabled, errorMessage, engine, errorFired, nBatches,
                   finalLog, fresh, errorSinceStart>>

\* stopRecognition. recognition?.stop() is ignored by a capability that is not
\* started.
stopRecognition ==
    /\ isButtonDisabled' = TRUE
    /\ stopRequested' = (stopRequested \/ (recognition = "object" /\ engine = "started"))
    /\ last' = Step("stopRecognition", NoEvent, "", FALSE, FALSE)
    /\ UNCHANGED <<recognition, interimTranscript, finalTranscript, isRecording,
                   errorMessage, engine, errorFired, nBatches, finalLog, fresh, errorSinceStart>>

\* Mutant: the branches of handleButtonClick swapped.
handleButtonClick_Inverted ==
    IF isRecording THEN startRecognition ELSE stopRecognition

handleButtonClick ==
    IF isRecording THEN stopRecognition ELSE startRecognition

\* Mutant: the button without its disabled attribute.
ClickButton_NeverDisabled ==
    handleButtonClick

\* <button on:click={handleButtonClick} disabled={isButtonDisabled}>
ClickButton ==
    /\ ~isButtonDisabled
    /\ handleButtonClick

\* A click on the disabled button reaches no handler.
ClickDisabledButton ==
    /\ isButtonDisabled
    /\ last.kind # "ignored"
    /\ last' = Step("ignored", NoEvent, "", FALSE, FALSE)
    /\ UNCHANGED <<recognition, interimTranscript, finalTranscript, isRecording,
                   isButtonDisabled, errorMessage, engine, stopRequested,
                   errorFired, nBatches, finalLog, fresh, errorSinceStart>>

Next ==
    \/ ClickButton
    \/ ClickDisabledButton
    \/ OnStart
    \/ OnResult
    \/ OnError
    \/ OnEnd

Spec == Init /\ [][Next]_vars

\* The capability answers a pending start or stop request with one of the
\* events registered in onMount: start, error or end.
Answer ==
    /\ isButtonDisabled
    /\ (OnStart \/ OnError \/ OnEnd)

\* Spec with a capability that does answer.
FairSpec == Spec /\ WF_vars(Answer)

\* The controller's state as the page shows it: the button starts when
\* isRecording is false and stops when it is true, and is dead while
\* isButtonDisabled. A start request that is not yet confirmed counts as Active.
SessionState ==
    IF isRecording
    THEN (IF isButtonDisabled THEN "Terminating" ELSE "Active")
    ELSE (IF isButtonDisabled THEN "Active" ELSE "Idle")

\* -------------------------------------------------- helpers of the claims
ClickKinds == {"startRecognition", "stopRecognition", "ignored"}

RECURSIVE ConcatTexts(_)
ConcatTexts(log) ==
    IF log = << >> THEN << >> ELSE Head(log)[2] \o ConcatTexts(Tail(log))

EntriesAt(log, i) == SelectSeq(log, LAMBDA e : e[1] = i)

\* The texts of a log of <<index, text>> entries, by ascending index.
RECURSIVE InIndexOrder(_, _)
InIndexOrder(log, i) ==
    IF i >= MaxResults THEN << >>
    ELSE ConcatTexts(EntriesAt(log, i)) \o InIndexOrder(log, i + 1)

StrictlyIncreasing(log) ==
    \A j \in 1..(Len(log) - 1) : log[j][1] < log[j + 1][1]

\* The text of the non-final chunks of an event with index in resultIndex..n-1.
RECURSIVE NonFinalText(_, _)
NonFinalText(event, n) ==
    IF n <= event.resultIndex THEN << >>
    ELSE NonFinalText(event, n - 1)
         \o (IF event.results[n - 1].isFinal
             THEN << >> ELSE event.results[n - 1].transcript)

\* A log without the later deliveries of an index already in it.
RECURSIVE FirstPerIndex(_)
FirstPerIndex(log) ==
    IF log = << >> THEN << >>
    ELSE LET front == SubSeq(log, 1, Len(log) - 1)
             e == log[Len(log)]
         IN  IF \E j \in 1..Len(front) : front[j][1] = e[1]
             THEN FirstPerIndex(front)
             ELSE Append(FirstPerIndex(front), e)

Redelivered(log) ==
    \E j, k \in 1..Len(log) : j < k /\ log[j][1] = log[k][1]

\* ------------------------------------------------------------- claims

\* C1: when the final chunk indices delivered since the last start request are
\* strictly increasing, finalTranscript is the concatenation, by ascending
\* index, of the text of every chunk delivered with isFinal = true, and
\* nothing else.
C1_FinalIsConcatOfFinals ==
    StrictlyIncreasing(finalLog) => finalTranscript = InIndexOrder(finalLog, 0)

\* Two batches of one session, the first finalizing index 0 and the second
\* index 1 only.
C1_Witness ==
    /\ last.kind = "result"
    /\ nBatches = 2
    /\ Len(finalLog) = 2
    /\ StrictlyIncreasing(finalLog)
    /\ last.event.resultIndex = 1
    /\ finalLog[1][2] # finalLog[2][2]

\* C2: after a result event is handled, interimTranscript is exactly the
\* concatenation, by ascending index from resultIndex, of the text of that
\* event's non-final chunks, whatever it was before; an event without a
\* non-final chunk (an empty one included) leaves it empty.
C2_InterimIsReplaced ==
    last.kind = "result" =>
        interimTranscript = NonFinalText(last.event, last.event.length)

\* A second batch that delivers index 0 as final and no interim chunk, after a
\* first batch that finalized nothing: the interim text is gone and the chunk
\* is in finalTranscript only.
C2_Witness ==
    /\ last.kind = "result"
    /\ nBatches = 2
    /\ last.event.resultIndex = 0
    /\ last.event.length = 1
    /\ last.event.results[0].isFinal
    /\ finalLog = << <<0, <<"a">>>> >>
    /\ finalTranscript = <<"a">>
    /\ interimTranscript = << >>

C4_ErrorClearsInterim ==
    [][last'.kind = "error" =>
          /\ interimTranscript' = << >>
          /\ finalTranscript' = finalTranscript]_vars

\* C5 as claimed: without a capability (recognition is null) a start request
\* leaves the session Idle, sets an error message and no result is processed.
C5_UnsupportedIsSurfaced ==
    (recognition = "null" /\ last.kind = "startRecognition") =>
        /\ SessionState = "Idle"
        /\ errorMessage # ""
        /\ nBatches = 0

\* C6 as claimed: recognition.start() is never called while a session that
\* was activated before has not reported `end`.
C6_NoStartWhileLive ==
    ~(last.kind = "startRecognition" /\ last.live)

\* C7: a click while the session state is not Idle never runs
\* startRecognition: finalTranscript, interimTranscript and errorMessage are
\* unchanged and no activation reaches the capability; a click on the disabled
\* button changes nothing at all.
C7_StartOnlyFromIdle ==
    [][(SessionState # "Idle" /\ last'.kind \in ClickKinds) =>
          /\ last'.kind # "startRecognition"
          /\ UNCHANGED <<finalTranscript, interimTranscript, errorMessage, engine>>
          /\ (last'.kind = "ignored" => UNCHANGED <<isRecording, isButtonDisabled>>)]_vars

\* A click absorbed while a start request awaits its confirmation.
C7_Witness ==
    /\ last.kind = "ignored"
    /\ SessionState = "Active"
    /\ engine = "starting"

\* C8 as claimed: from a stop request until `end`, no click runs
\* startRecognition or stopRecognition.
C8_NoRequestWhileStopping ==
    [][stopRequested => last'.kind \notin {"startRecognition", "stopRecognition"}]_vars

\* C9: stopRecognition runs only in the Active state, on a started capability
\* with no stop or error pending; in any other state a click issues no
\* deactivation request.
C9_StopOnlyFromActive ==
    [][(last'.kind \in ClickKinds /\ ~(SessionState = "Active" /\ engine = "started")) =>
          /\ last'.kind # "stopRecognition"
          /\ UNCHANGED stopRequested]_vars

\* A click absorbed while a stop request awaits `end`, with a transcript.
C9_Witness ==
    /\ last.kind = "ignored"
    /\ SessionState = "Terminating"
    /\ stopRequested
    /\ finalTranscript # << >>

\* C10: startRecognition leaves finalTranscript, interimTranscript and
\* errorMessage empty, and they are empty when recognition.start() is called.
C10_StartClears ==
    last.kind = "startRecognition" =>
        /\ finalTranscript = << >>
        /\ interimTranscript = << >>
        /\ errorMessage = ""
        /\ last.cleared

\* A start request right after an error event of the previous session (its
\* message was showing).
C10_Witness ==
    /\ last.kind = "startRecognition"
    /\ errorFired
    /\ errorMessage = ""
\* C11: right after an error event the recording flag is false, the button is
\* enabled and errorMessage tells the error: the no-speech message for the
\* code 'no-speech' and for no other code, and otherwise a message that
\* carries the raw code.
C11_ErrorEndsSession ==
    last.kind = "error" =>
        /\ ~isRecording
        /\ ~isButtonDisabled
        /\ SessionState = "Idle"
        /\ (errorMessage = NoSpeechMessage) = (last.error = "no-speech")
        /\ (last.error # "no-speech" =>
              errorMessage = "an error occurred: " \o last.error)

\* An error other than no-speech that arrives after a stop request.
C11_Witness ==
    /\ last.kind = "error"
    /\ last.error = "not-allowed"
    /\ stopRequested
    /\ errorMessage = "an error occurred: not-allowed"
\* The text of the final chunks of an event with index in resultIndex..n-1.
RECURSIVE FinalText(_, _)
FinalText(event, n) ==
    IF n <= event.resultIndex THEN << >>
    ELSE FinalText(event, n - 1)
         \o (IF event.results[n - 1].isFinal
             THEN event.results[n - 1].transcript ELSE << >>)

\* C12: a result event delivered after a stop request and before `end` is
\* folded as in the Active state: its final chunks are appended to
\* finalTranscript and its non-final chunks replace interimTranscript.
C12_ResultsAfterStopAreFolded ==
    [][(stopRequested /\ last'.kind = "result") =>
          /\ finalTranscript' =
                finalTranscript \o FinalText(last'.event, last'.event.length)
          /\ interimTranscript' =
                NonFinalText(last'.event, last'.event.length)]_vars

\* A result event with a final and a non-final chunk, handled while the stop
\* request awaits `end`.
C12_Witness ==
    /\ last.kind = "result"
    /\ stopRequested
    /\ isButtonDisabled
    /\ isRecording
    /\ last.event.length - last.event.resultIndex = 2
    /\ finalTranscript # << >>
    /\ interimTranscript # << >>
\* C13: an `end` event, asked for by stop() or not, leaves the controller
\* Idle with the button enabled, and finalTranscript, interimTranscript and
\* errorMessage as they were before it.
C13_EndedUnpromptedIsAStop ==
    [][last'.kind = "end" =>
          /\ SessionState' = "Idle"
          /\ ~isButtonDisabled'
          /\ engine' = "inactive"
          /\ UNCHANGED <<finalTranscript, interimTranscript, errorMessage>>]_vars

\* The capability ended an Active session on its own: no stop request and no
\* error, with text in both transcripts.
C13_Witness ==
    /\ last.kind = "end"
    /\ ~last.live
    /\ errorMessage = ""
    /\ finalTranscript # << >>
    /\ interimTranscript # << >>
    /\ SessionState = "Idle"
IsPrefix(s, t) ==
    /\ Len(s) <= Len(t)
    /\ SubSeq(t, 1, Len(s)) = s

\* C14: handling a result event never shortens or rewrites finalTranscript:
\* its value before the event is a prefix of its value after it.
C14_FinalIsAppendOnly ==
    [][last'.kind = "result" => IsPrefix(finalTranscript, finalTranscript')]_vars

\* A second result event that adds one final chunk to a finalTranscript of
\* two chunks.
C14_Witness ==
    /\ last.kind = "result"
    /\ nBatches = 2
    /\ Len(FinalsOf(last.event, last.event.resultIndex)) = 1
    /\ Len(finalTranscript) = 3
    /\ finalTranscript[1] # finalTranscript[3]
\* C15: whatever the earlier sessions left behind, the transcript after a
\* start request and any result events is the transcript of an aggregator
\* constructed at that start request and fed the same events.
C15_ResetIsHistoryIndependent ==
    /\ finalTranscript = fresh.final
    /\ interimTranscript = fresh.interim

\* Two result events handled after a start request that followed an error of
\* the session before.
C15_Witness ==
    /\ last.kind = "result"
    /\ nBatches = 2
    /\ errorFired
    /\ ~errorSinceStart
    /\ finalTranscript # << >>
    /\ interimTranscript # << >>
Requests == {"startRecognition", "stopRecognition"}
Confirmations == {"start", "end", "error"}

\* C16: a start or stop request disables the button and leaves the recording
\* flag as it was; while the button is disabled, every step that is not a
\* start, end or error event keeps it disabled, keeps the recording flag and
\* is no start or stop request.
C16_EnabledOnlyByConfirmation ==
    [][/\ (last'.kind \in Requests =>
              isButtonDisabled' /\ isRecording' = isRecording)
       /\ ((isButtonDisabled /\ last'.kind \notin Confirmations) =>
              /\ isButtonDisabled'
              /\ isRecording' = isRecording
              /\ last'.kind \notin Requests
              /\ UNCHANGED <<engine, stopRequested>>)]_vars

\* An empty result event handled between a stop request and `end`: the
\* button is still disabled and the recording flag still true.
C16_Witness ==
    /\ last.kind = "result"
    /\ last.event.length = 0
    /\ stopRequested
    /\ isButtonDisabled
    /\ isRecording
\* C17 as claimed: whenever the button is disabled it is enabled again later,
\* with or without a capability, given a capability that answers requests.
C17_ButtonIsReenabled ==
    isButtonDisabled ~> ~isButtonDisabled

\* What holds of C17: with a capability present the button is enabled again.
C17_ReenabledWithCapability ==
    (recognition = "object" /\ isButtonDisabled) ~> ~isButtonDisabled
\* C18: errorMessage is non-empty exactly when an error event has arrived
\* since the last start request, and once set it is changed by no step other
\* than a start request.
C18_ErrorStaysUntilStart ==
    /\ [](errorMessage # "" <=> errorSinceStart)
    /\ [][(errorMessage # "" /\ last'.kind # "startRecognition") =>
             errorMessage' = errorMessage]_vars

\* A result event handled after the error event and the message still shows.
C18_Witness ==
    /\ last.kind = "result"
    /\ errorSinceStart
    /\ errorFired
    /\ errorMessage = NoSpeechMessage
\* C19: handling a result event leaves isRecording, isButtonDisabled and
\* errorMessage unchanged; finalTranscript and interimTranscript are changed
\* by no step other than a result event and a start request (not by the
\* start and end events, nor by stopRecognition).
C19_OwnershipOfState ==
    [][/\ (last'.kind = "result" =>
              UNCHANGED <<isRecording, isButtonDisabled, errorMessage>>)
       /\ (last'.kind \notin {"result", "startRecognition"} =>
              UNCHANGED <<finalTranscript, interimTranscript>>)]_vars

\* A stop request made with text in both transcripts.
C19_Witness ==
    /\ last.kind = "stopRecognition"
    /\ finalTranscript # << >>
    /\ interimTranscript # << >>
====
